---- MODULE Spec2Model ----
(***************************************************************************)
(* MISSTplayer (src/MISST/MISSTplayer.py): the multi-track playback        *)
(* engine.  One control thread calls pause / resume / stop / change_files  *)
(* / set_position / set_volume / set_effects; every resume() from Paused   *)
(* and every change_files() starts a thread running play().  The threads   *)
(* share the fields of the player object without any lock, so every        *)
(* statement of play(), get_data(), stop() and change_files() that touches *)
(* a shared field is a step of its own.                                    *)
(*                                                                         *)
(* The signal-processing functions (adjust_volume, modify_speed,           *)
(* modify_pitch, apply_reverb, save) are functions of their arguments and  *)
(* are called on their own, on bounded sets of arguments.                  *)
(*                                                                         *)
(* Indices are 1-based here (Python's stream_index i is i+1 in the model). *)
(***************************************************************************)
EXTENDS Integers, Sequences, FiniteSets, TLC

\* ---------------------------------------------------------------- bounds
MaxThreads == 2
MaxTracks == 2
\* Two threads and seeks can push a position up without end (each += adds to
\* whatever the other thread stored); the model stops at this many chunks.
MaxChunks == 3
\* The longest chunk or track, in samples, handed to a signal-processing
\* function on its own.
MaxLen == 3

\* ------------------------------------------------------ program constants
chunk_size == 1024

\* ------------------------------------------------------------ input sets
\* The audio files on disk and their total frame counts: "short" is one
\* full chunk, "long" is one full chunk and a short final chunk of half a
\* chunk.
Files == {"short", "long"}
FrameCount(f) == IF f = "short" THEN chunk_size ELSE chunk_size + chunk_size \div 2

VolumeLevels == {50, 100}               \* volume in percent
SeekTargets == {0, chunk_size}          \* frames; inside every file
EqValues == {"true", "false", "error"}  \* getSetting("eq"): value or failure
FxValues == {"ok", "error"}             \* speed/pitch/reverb/bass retrieval

\* A path that sf.read cannot open (no such file, or not an audio file).
Unreadable == {"missing"}
AnyFiles == Files \cup Unreadable

Tids == 1..MaxThreads

TrackLists == UNION {[1..n -> Files] : n \in 1..MaxTracks}
VolumeLists(n) == [1..n -> VolumeLevels]
FullVolume(n) == [k \in 1..n |-> 100]
AnyTrackLists == UNION {[1..n -> AnyFiles] : n \in 1..MaxTracks}

VARIABLES
    files,       \* self.files
    streams,     \* self.streams: sequence of stream ids
    open,        \* the stream objects that are open (PyAudio device streams)
    paused,      \* self.paused
    positions,   \* self.positions
    volumes,     \* self.volumes
    effects,     \* self.effects
    terminated,  \* self.p.terminate() was called
    eqSetting,   \* settings store: what getSetting("eq") yields
    fxSetting,   \* settings store: whether the effect parameters parse
    thr,         \* the play() threads: position in the code and locals
    ctl,         \* the control thread: position inside stop/change_files
    lastCall,    \* history: the last of pause/resume/stop/change_files called
    seekTarget,  \* history: per track, the frame of a set_position that no
                 \* chunk read has consumed yet (NoSeek if there is none)
    dsp          \* the last call of a signal-processing function on its own:
                 \* its name, its arguments and what it returned

vars == <<files, streams, open, paused, positions, volumes, effects,
          terminated, eqSetting, fxSetting, thr, ctl, lastCall, seekTarget,
          dsp>>

\* ------------------------------------------------------------- helpers
Range(s) == {s[k] : k \in DOMAIN s}
Zeros(n) == [k \in 1..n |-> 0]
Min(a, b) == IF a < b THEN a ELSE b
Max(a, b) == IF a > b THEN a ELSE b

\* sf.read(file, start=start, frames=chunk_size): the number of frames read.
\* A start at or past the end reads nothing.
sf_read(file, start) == Min(chunk_size, Max(0, FrameCount(file) - start))

NoThread == [pc |-> "none", it |-> 0, i |-> 0, stream |-> 0, n |-> 0,
             p |-> 0, stale |-> FALSE, chain |-> <<>>, first |-> FALSE]
IdleCtl == [pc |-> "idle", nf |-> <<>>, nv |-> <<>>, k |-> 0]
NoSeek == -1
NoSeeks == [k \in 1..MaxTracks |-> NoSeek]
NoCall == [op |-> "none"]

Active == {t \in Tids : thr[t].pc # "none"}
FreeTid == CHOOSE t \in Tids \ Active : \A u \in Tids \ Active : t <= u

\* Stream objects still referenced by the list or by a local of a thread.
Referenced == Range(streams) \cup {thr[t].stream : t \in Active} \cup open
NewStream == CHOOSE s \in 1..(MaxTracks + MaxThreads + 1) : s \notin Referenced

\* A get_data that equalizes before it applies the effect chain.
GetDataChain_eqFirst(fx, fxs, eqs) ==
    LET afterVolume == <<"volume">>
        afterEq == IF eqs = "true" THEN Append(afterVolume, "eq") ELSE afterVolume
    IN  IF fx /\ fxs = "ok" THEN Append(afterEq, "effects") ELSE afterEq

\* The stages get_data applies to a non-empty chunk, in order.
GetDataChain(fx, fxs, eqs) ==
    LET afterVolume == <<"volume">>
        afterEffects == IF fx /\ fxs = "ok"
                        THEN Append(afterVolume, "effects") ELSE afterVolume
    IN  IF eqs = "true" THEN Append(afterEffects, "eq") ELSE afterEffects

\* ---------------------------------------------------------------- Init
\* __init__(files, volumes), lines 26-47: one open stream per file, every
\* position 0, not paused, effects off, and no play() thread.
Constructed(fs, vs) ==
    /\ files = fs
    /\ streams = [k \in 1..Len(fs) |-> k]
    /\ open = {k : k \in 1..Len(fs)}
    /\ paused = FALSE
    /\ positions = Zeros(Len(fs))
    /\ volumes = vs
    /\ effects = FALSE
    /\ terminated = FALSE
    /\ thr = [t \in Tids |-> NoThread]
    /\ ctl = IdleCtl
    /\ lastCall = "init"
    /\ seekTarget = NoSeeks

\* __init__ at line 39, before its loop over the files: the fields are set
\* (lines 26-36) and no stream is open yet.
BeingConstructed(fs, vs) ==
    /\ files = fs
    /\ streams = <<>>
    /\ open = {}
    /\ paused = FALSE
    /\ positions = Zeros(Len(fs))
    /\ volumes = vs
    /\ effects = FALSE
    /\ terminated = FALSE
    /\ thr = [t \in Tids |-> NoThread]
    /\ ctl = [IdleCtl EXCEPT !.pc = "in39", !.k = 1]
    /\ lastCall = "init"
    /\ seekTarget = NoSeeks

\* Any track list, any volumes, any state of the settings store.
Init ==
    /\ \E fs \in TrackLists : \E vs \in VolumeLists(Len(fs)) : Constructed(fs, vs)
    /\ dsp = NoCall
    /\ eqSetting \in EqValues
    /\ fxSetting \in FxValues

\* ------------------------------------------------ the play() thread, t
SetThr(t, r) == thr' = [thr EXCEPT ![t] = r]
\* An uncaught exception (IndexError, OSError) or the end of play() ends the thread.
Exit(t) == SetThr(t, NoThread)

\* play(), line 53: self.paused = False
T_start(t) ==
    /\ thr[t].pc = "spawned"
    /\ paused' = FALSE
    /\ SetThr(t, [thr[t] EXCEPT !.pc = "while"])
    /\ UNCHANGED <<dsp, seekTarget,
                   files, streams, open, positions, volumes, effects, terminated,
                   eqSetting, fxSetting, ctl, lastCall>>

\* play(), line 54: while not self.paused; line 55 creates the list iterator
T_while(t) ==
    /\ thr[t].pc = "while"
    /\ IF paused
       THEN Exit(t)
       ELSE SetThr(t, [thr[t] EXCEPT !.pc = "for", !.it = 1])
    /\ UNCHANGED <<dsp, seekTarget,
                   files, streams, open, paused, positions, volumes, effects,
                   terminated, eqSetting, fxSetting, ctl, lastCall>>

\* play(), line 55: the next (i, stream) of enumerate(self.streams).  The
\* iterator holds the list object, which change_files clears and refills in
\* place, and an index into it.
T_for(t) ==
    /\ thr[t].pc = "for"
    /\ IF thr[t].it <= Len(streams)
       THEN SetThr(t, [thr[t] EXCEPT !.pc = "read", !.i = thr[t].it,
                                     !.stream = streams[thr[t].it],
                                     !.it = thr[t].it + 1])
       ELSE SetThr(t, [thr[t] EXCEPT !.pc = "while", !.it = 0])
    /\ UNCHANGED <<dsp, seekTarget,
                   files, streams, open, paused, positions, volumes, effects,
                   terminated, eqSetting, fxSetting, ctl, lastCall>>

\* The loop's reaction to an empty chunk (play(), lines 57-60): break.
AfterEmpty(r) == [r EXCEPT !.pc = "while", !.it = 0, !.i = 0, !.stream = 0,
                           !.first = FALSE]

\* get_data(), line 69: sf.read(self.files[i], start=self.positions[i], ...);
\* an index past the end of either list raises IndexError, and a file that
\* cannot be opened raises too.  An empty chunk
\* is returned as it is (line 88), an empty numpy array, and play() tests
\* its truth value (line 57): up to NumPy 2.1 that is False (with a
\* DeprecationWarning) and play() breaks (line 60); from NumPy 2.2 on it
\* raises ValueError, which nothing catches.  Both builds are possible.
T_read(t) ==
    /\ thr[t].pc = "read"
    /\ IF \/ thr[t].i > Len(files)
          \/ thr[t].i > Len(positions)
          \/ files[thr[t].i] \in Unreadable
       THEN Exit(t) /\ UNCHANGED seekTarget
       ELSE LET n == sf_read(files[thr[t].i], positions[thr[t].i]) IN
            /\ seekTarget' = [seekTarget EXCEPT ![thr[t].i] = NoSeek]
            /\ IF n > 0
               THEN SetThr(t, [thr[t] EXCEPT !.pc = "incr_load", !.n = n,
                                             !.first = FALSE])
               ELSE \/ SetThr(t, AfterEmpty(thr[t]))
                    \/ Exit(t)
    /\ UNCHANGED <<dsp, files, streams, open, paused, positions, volumes, effects,
                   terminated, eqSetting, fxSetting, ctl, lastCall>>

\* get_data(), line 71, first half: load self.positions and its entry i
T_incr_load(t) ==
    /\ thr[t].pc = "incr_load"
    /\ IF thr[t].i > Len(positions)
       THEN Exit(t)
       ELSE SetThr(t, [thr[t] EXCEPT !.pc = "incr_store",
                                     !.p = positions[thr[t].i], !.stale = FALSE])
    /\ UNCHANGED <<dsp, seekTarget,
                   files, streams, open, paused, positions, volumes, effects,
                   terminated, eqSetting, fxSetting, ctl, lastCall>>

\* get_data(), line 71, second half: store the sum into the list that was
\* loaded; a list that change_files has replaced since is no longer the
\* player's.
T_incr_store(t) ==
    /\ thr[t].pc = "incr_store"
    /\ thr[t].p + thr[t].n <= MaxChunks * chunk_size
    /\ positions' = IF thr[t].stale THEN positions
                    ELSE [positions EXCEPT ![thr[t].i] = thr[t].p + thr[t].n]
    /\ SetThr(t, [thr[t] EXCEPT !.pc = "process", !.p = 0, !.stale = FALSE])
    /\ UNCHANGED <<dsp, seekTarget,
                   files, streams, open, paused, volumes, effects, terminated,
                   eqSetting, fxSetting, ctl, lastCall>>

\* A get_data without the try/except around the effect chain and the
\* equalizer: a settings failure ends the thread.
T_process_raises(t) ==
    /\ thr[t].pc = "process"
    /\ IF thr[t].i > Len(volumes)
          \/ (effects /\ fxSetting = "error") \/ eqSetting = "error"
       THEN Exit(t)
       ELSE SetThr(t, [thr[t] EXCEPT !.pc = "write",
                          !.chain = GetDataChain(effects, fxSetting, eqSetting)])
    /\ UNCHANGED <<dsp, seekTarget,
                   files, streams, open, paused, positions, volumes, effects,
                   terminated, eqSetting, fxSetting, ctl, lastCall>>

\* get_data(), lines 72-88: volume (self.volumes[i], IndexError past the
\* end), then the effect chain, then the equalizer.  A failure of the
\* settings store inside either try block is swallowed (lines 79-81, 85-87).
T_process(t) ==
    /\ thr[t].pc = "process"
    /\ IF thr[t].i > Len(volumes)
       THEN Exit(t)
       ELSE SetThr(t, [thr[t] EXCEPT !.pc = "write",
                          !.chain = GetDataChain(effects, fxSetting, eqSetting)])
    /\ UNCHANGED <<dsp, seekTarget,
                   files, streams, open, paused, positions, volumes, effects,
                   terminated, eqSetting, fxSetting, ctl, lastCall>>

\* play(), line 58: stream.write(data); a closed stream raises
T_write(t) ==
    /\ thr[t].pc = "write"
    /\ IF thr[t].stream \in open
       THEN SetThr(t, [thr[t] EXCEPT !.pc = "for", !.i = 0, !.stream = 0,
                                     !.n = 0, !.chain = <<>>])
       ELSE Exit(t)
    /\ UNCHANGED <<dsp, seekTarget,
                   files, streams, open, paused, positions, volumes, effects,
                   terminated, eqSetting, fxSetting, ctl, lastCall>>

ThreadStep(t) ==
    \/ T_start(t)
    \/ T_while(t)
    \/ T_for(t)
    \/ T_read(t)
    \/ T_incr_load(t)
    \/ T_incr_store(t)
    \/ T_process(t)
    \/ T_write(t)

\* ------------------------------------------------- the control thread
CanCall == ctl.pc = "idle"
Spawn(isFirst) ==
    SetThr(FreeTid, [NoThread EXCEPT !.pc = "spawned", !.first = isFirst])

\* pause(), line 330
Pause ==
    /\ CanCall
    /\ paused' = TRUE
    /\ lastCall' = "pause"
    /\ UNCHANGED <<dsp, seekTarget,
                   files, streams, open, positions, volumes, effects, terminated,
                   eqSetting, fxSetting, thr, ctl>>

\* A resume() without the test of the paused flag.
Resume_unguarded ==
    /\ CanCall
    /\ Active # Tids
    /\ lastCall' = "resume"
    /\ paused' = FALSE
    /\ Spawn(FALSE)
    /\ UNCHANGED <<dsp, seekTarget,
                   files, streams, open, positions, volumes, effects, terminated,
                   eqSetting, fxSetting, ctl>>

\* resume(), lines 336-338.  (A call that would start more than MaxThreads
\* threads is outside the model.)
Resume ==
    /\ CanCall
    /\ paused => Active # Tids
    /\ lastCall' = "resume"
    /\ IF paused
       THEN /\ paused' = FALSE
            /\ Spawn(FALSE)
       ELSE UNCHANGED <<paused, thr>>
    /\ UNCHANGED <<dsp, seekTarget,
                   files, streams, open, positions, volumes, effects, terminated,
                   eqSetting, fxSetting, ctl>>

\* set_effects(), line 271
SetEffects(b) ==
    /\ CanCall
    /\ effects' = b
    /\ UNCHANGED <<dsp, seekTarget,
                   files, streams, open, paused, positions, volumes, terminated,
                   eqSetting, fxSetting, thr, ctl, lastCall>>

\* set_volume(), line 281
SetVolume(i, v) ==
    /\ CanCall
    /\ i \in DOMAIN volumes
    /\ volumes' = [volumes EXCEPT ![i] = v]
    /\ UNCHANGED <<dsp, seekTarget,
                   files, streams, open, paused, positions, effects, terminated,
                   eqSetting, fxSetting, thr, ctl, lastCall>>

\* set_position(), line 291
SetPosition(i, pos) ==
    /\ CanCall
    /\ i \in DOMAIN positions
    /\ positions' = [positions EXCEPT ![i] = pos]
    /\ seekTarget' = [seekTarget EXCEPT ![i] = pos]
    /\ UNCHANGED <<dsp, files, streams, open, paused, volumes, effects, terminated,
                   eqSetting, fxSetting, thr, ctl, lastCall>>

\* stop(), lines 344-347.  The engine is not used on the device again after
\* stop(): the device handle is released.
StopCall ==
    /\ CanCall
    /\ ~terminated
    /\ ctl' = [IdleCtl EXCEPT !.pc = "st344", !.k = 1]
    /\ lastCall' = "stop"
    /\ UNCHANGED <<dsp, seekTarget,
                   files, streams, open, paused, positions, volumes, effects,
                   terminated, eqSetting, fxSetting, thr>>

\* stop(), lines 344-346: stop and close the next stream
StopClose ==
    /\ ctl.pc = "st344"
    /\ ctl.k <= Len(streams)
    /\ open' = open \ {streams[ctl.k]}
    /\ ctl' = [ctl EXCEPT !.k = ctl.k + 1]
    /\ UNCHANGED <<dsp, seekTarget,
                   files, streams, paused, positions, volumes, effects,
                   terminated, eqSetting, fxSetting, thr, lastCall>>

\* stop(), line 347: self.p.terminate(), and stop() returns
StopTerminate ==
    /\ ctl.pc = "st344"
    /\ ctl.k > Len(streams)
    /\ terminated' = TRUE
    /\ ctl' = IdleCtl
    /\ UNCHANGED <<dsp, seekTarget,
                   files, streams, open, paused, positions, volumes, effects,
                   eqSetting, fxSetting, thr, lastCall>>

\* change_files(new_files, volumes), line 357: self.paused = True.  Like
\* stop(), it is not called on an engine whose device was released.
CF_call(nf, nv) ==
    /\ CanCall
    /\ ~terminated
    /\ Active # Tids
    /\ paused' = TRUE
    /\ ctl' = [pc |-> "cf358", nf |-> nf, nv |-> nv, k |-> 0]
    /\ lastCall' = "change_files"
    /\ UNCHANGED <<dsp, seekTarget,
                   files, streams, open, positions, volumes, effects, terminated,
                   eqSetting, fxSetting, thr>>

\* line 358: self.volumes = volumes
CF_volumes ==
    /\ ctl.pc = "cf358"
    /\ volumes' = ctl.nv
    /\ ctl' = [ctl EXCEPT !.pc = "cf360", !.k = 1]
    /\ UNCHANGED <<dsp, seekTarget,
                   files, streams, open, paused, positions, effects, terminated,
                   eqSetting, fxSetting, thr, lastCall>>

\* lines 360-362: stop and close the next stream
CF_close ==
    /\ ctl.pc = "cf360"
    /\ ctl.k <= Len(streams)
    /\ open' = open \ {streams[ctl.k]}
    /\ ctl' = [ctl EXCEPT !.k = ctl.k + 1]
    /\ UNCHANGED <<dsp, seekTarget,
                   files, streams, paused, positions, volumes, effects,
                   terminated, eqSetting, fxSetting, thr, lastCall>>

\* line 364: self.streams.clear()
CF_clear ==
    /\ ctl.pc = "cf360"
    /\ ctl.k > Len(streams)
    /\ streams' = <<>>
    /\ ctl' = [ctl EXCEPT !.pc = "cf365", !.k = 0]
    /\ UNCHANGED <<dsp, seekTarget,
                   files, open, paused, positions, volumes, effects, terminated,
                   eqSetting, fxSetting, thr, lastCall>>

\* line 365: self.files = new_files
CF_files ==
    /\ ctl.pc = "cf365"
    /\ files' = ctl.nf
    /\ ctl' = [ctl EXCEPT !.pc = "cf366"]
    /\ UNCHANGED <<dsp, seekTarget,
                   streams, open, paused, positions, volumes, effects, terminated,
                   eqSetting, fxSetting, thr, lastCall>>

\* line 366: self.positions = [0] * len(new_files), a new list: the list a
\* thread loaded for its += is from now on a stale one.
CF_positions ==
    /\ ctl.pc = "cf366"
    /\ positions' = Zeros(Len(ctl.nf))
    /\ thr' = [t \in Tids |-> IF thr[t].pc = "incr_store"
                              THEN [thr[t] EXCEPT !.stale = TRUE] ELSE thr[t]]
    /\ ctl' = [ctl EXCEPT !.pc = "cf368", !.k = 1]
    /\ seekTarget' = NoSeeks
    /\ UNCHANGED <<dsp, files, streams, open, paused, volumes, effects, terminated,
                   eqSetting, fxSetting, lastCall>>

\* lines 368-376: read the next file (sf.read, line 369), open a stream for
\* it (370-375) and append the stream (376)
CF_open ==
    /\ ctl.pc = "cf368"
    /\ ctl.k <= Len(files)
    /\ files[ctl.k] \notin Unreadable
    /\ streams' = Append(streams, NewStream)
    /\ open' = open \cup {NewStream}
    /\ ctl' = [ctl EXCEPT !.k = ctl.k + 1]
    /\ UNCHANGED <<dsp, seekTarget,
                   files, paused, positions, volumes, effects, terminated,
                   eqSetting, fxSetting, thr, lastCall>>

\* line 369: sf.read raises on a file it cannot open; nothing in
\* change_files catches it, so the call ends here and the error is the
\* caller's.
CF_open_raise ==
    /\ ctl.pc = "cf368"
    /\ ctl.k <= Len(files)
    /\ files[ctl.k] \in Unreadable
    /\ ctl' = IdleCtl
    /\ lastCall' = "change_files_raised"
    /\ UNCHANGED <<dsp, seekTarget, files, streams, open, paused, positions,
                   volumes, effects, terminated, eqSetting, fxSetting, thr>>

\* line 378: self.paused = False
CF_unpause ==
    /\ ctl.pc = "cf368"
    /\ ctl.k > Len(files)
    /\ paused' = FALSE
    /\ ctl' = [ctl EXCEPT !.pc = "cf379", !.k = 0]
    /\ UNCHANGED <<dsp, seekTarget,
                   files, streams, open, positions, volumes, effects, terminated,
                   eqSetting, fxSetting, thr, lastCall>>

\* line 379: threading.Thread(target=self.play).start(), and change_files returns
CF_spawn ==
    /\ ctl.pc = "cf379"
    /\ Spawn(TRUE)
    /\ ctl' = IdleCtl
    /\ UNCHANGED <<dsp, seekTarget,
                   files, streams, open, paused, positions, volumes, effects,
                   terminated, eqSetting, fxSetting, lastCall>>

\* __init__, lines 39-47: read the next file (sf.read, line 40), open a
\* stream for it (41-46) and append the stream (47)
Init_open ==
    /\ ctl.pc = "in39"
    /\ ctl.k <= Len(files)
    /\ files[ctl.k] \notin Unreadable
    /\ streams' = Append(streams, NewStream)
    /\ open' = open \cup {NewStream}
    /\ ctl' = [ctl EXCEPT !.k = ctl.k + 1]
    /\ UNCHANGED <<dsp, seekTarget, files, paused, positions, volumes, effects,
                   terminated, eqSetting, fxSetting, thr, lastCall>>

\* __init__, line 40: sf.read raises on a file it cannot open and the
\* constructor ends with the exception; the caller gets no player object,
\* so no method is called afterwards.
Init_raise ==
    /\ ctl.pc = "in39"
    /\ ctl.k <= Len(files)
    /\ files[ctl.k] \in Unreadable
    /\ ctl' = [IdleCtl EXCEPT !.pc = "no_object"]
    /\ lastCall' = "init_raised"
    /\ UNCHANGED <<dsp, seekTarget, files, streams, open, paused, positions,
                   volumes, effects, terminated, eqSetting, fxSetting, thr>>

\* __init__ returns after the last file
Init_return ==
    /\ ctl.pc = "in39"
    /\ ctl.k > Len(files)
    /\ ctl' = IdleCtl
    /\ UNCHANGED <<dsp, seekTarget, files, streams, open, paused, positions,
                   volumes, effects, terminated, eqSetting, fxSetting, thr,
                   lastCall>>

\* The settings store is written by the application outside the player.
SettingsChange(e, f) ==
    /\ eqSetting' = e
    /\ fxSetting' = f
    /\ UNCHANGED <<dsp, seekTarget,
                   files, streams, open, paused, positions, volumes, effects,
                   terminated, thr, ctl, lastCall>>

\* The control thread inside stop()
StopStep ==
    \/ StopClose
    \/ StopTerminate

\* The control thread inside change_files()
CfStep ==
    \/ CF_volumes
    \/ CF_close
    \/ CF_clear
    \/ CF_files
    \/ CF_positions
    \/ CF_open
    \/ CF_unpause
    \/ CF_spawn

Next ==
    \/ \E t \in Tids : ThreadStep(t)
    \/ StopStep
    \/ CfStep
    \/ Pause
    \/ Resume
    \/ StopCall
    \/ \E b \in BOOLEAN : SetEffects(b)
    \/ \E i \in 1..MaxTracks, v \in VolumeLevels : SetVolume(i, v)
    \/ \E i \in 1..MaxTracks, pos \in SeekTargets : SetPosition(i, pos)
    \/ \E nf \in TrackLists : \E nv \in VolumeLists(Len(nf)) : CF_call(nf, nv)
    \/ \E e \in EqValues, f \in FxValues : SettingsChange(e, f)

\* The whole player under every call.
Spec == Init /\ [][Next]_vars

\* The calls that start, stop and retarget playback, with the volumes at
\* 1.0 and the settings store left alone: pause, resume, stop, change_files.
LifecycleInit ==
    /\ \E fs \in TrackLists : Constructed(fs, FullVolume(Len(fs)))
    /\ dsp = NoCall
    /\ eqSetting = "false"
    /\ fxSetting = "ok"

LifecycleNext ==
    \/ \E t \in Tids : ThreadStep(t)
    \/ StopStep
    \/ CfStep
    \/ Pause
    \/ Resume
    \/ StopCall
    \/ \E nf \in TrackLists : CF_call(nf, FullVolume(Len(nf)))

LifecycleSpec == LifecycleInit /\ [][LifecycleNext]_vars

\* Streaming against seeks: pause, resume, set_position.
SeekNext ==
    \/ \E t \in Tids : ThreadStep(t)
    \/ Pause
    \/ Resume
    \/ \E i \in 1..MaxTracks, pos \in SeekTargets : SetPosition(i, pos)

SeekSpec == LifecycleInit /\ [][SeekNext]_vars

\* Streaming against the flag and the settings the chunk pipeline reads:
\* pause, resume, set_effects and the settings store, whatever it holds at
\* the start.
ChainInit ==
    /\ \E fs \in TrackLists : Constructed(fs, FullVolume(Len(fs)))
    /\ dsp = NoCall
    /\ eqSetting \in EqValues
    /\ fxSetting \in FxValues

ChainNext ==
    \/ \E t \in Tids : ThreadStep(t)
    \/ Pause
    \/ Resume
    \/ \E b \in BOOLEAN : SetEffects(b)
    \/ \E e \in EqValues, f \in FxValues : SettingsChange(e, f)

ChainSpec == ChainInit /\ [][ChainNext]_vars

\* Construction and change_files with files that may fail to open, and the
\* threads change_files starts.
OpenInit ==
    /\ \E fs \in AnyTrackLists : BeingConstructed(fs, FullVolume(Len(fs)))
    /\ eqSetting = "false"
    /\ fxSetting = "ok"
    /\ dsp = NoCall

OpenNext ==
    \/ Init_open
    \/ Init_raise
    \/ Init_return
    \/ \E nf \in AnyTrackLists : CF_call(nf, FullVolume(Len(nf)))
    \/ CfStep
    \/ CF_open_raise
    \/ \E t \in Tids : ThreadStep(t)

OpenSpec == OpenInit /\ [][OpenNext]_vars

\* Streaming under pause and resume alone.
PlayNext ==
    \/ \E t \in Tids : ThreadStep(t)
    \/ Pause
    \/ Resume

PlaySpec == LifecycleInit /\ [][PlayNext]_vars

\* The scheduler runs every started thread.
PlayFairSpec == PlaySpec /\ \A t \in Tids : WF_vars(ThreadStep(t))

\* ------------------------------------- the signal-processing functions
\* adjust_volume, modify_speed, modify_pitch, apply_reverb and save take
\* their whole input as arguments and touch no field of the player that a
\* thread changes: each is a function of its arguments, called here on its
\* own.  dsp holds the call: its name, its arguments, and ret, what it
\* returned or raised.
Pending == [status |-> "pending"]
Returned(v) == [status |-> "returned", value |-> v]
Raised(e) == [status |-> "raised", error |-> e]

\* 16-bit samples: the ends of the range, their neighbours, and small values
\* whose halves are not whole numbers.
Samples == {-32768, -32767, -100, -3, -1, 0, 1, 3, 100, 32767}
Chunks == UNION {[1..n -> Samples] : n \in 0..MaxLen}
\* Volumes in percent; 0.0, 0.5, 1.0, 1.5 and 2.0 are exact as floats, so
\* sample * volume is the exact product.
DspVolumes == {0, 50, 100, 150, 200}

\* The two bytes of an int16 in the buffer that sf.read(dtype='int16')
\* returns (little-endian two's complement), as bytearray(data) copies them.
Int16Bytes(s) == <<(s % 65536) % 256, (s % 65536) \div 256>>

\* int.from_bytes(b, byteorder='little', signed=False)
from_bytes_unsigned(b) == b[1] + 256 * b[2]

\* int.from_bytes(b, byteorder='little', signed=True), line 109
from_bytes(b) ==
    LET u == b[1] + 256 * b[2] IN IF u >= 32768 THEN u - 65536 ELSE u

\* int(x) of the float x = num / 100: truncation toward zero, line 110
TruncDiv100(num) == IF num >= 0 THEN num \div 100 ELSE -((-num) \div 100)

\* sample.to_bytes(2, byteorder='little', signed=True), line 111: raises
\* OverflowError outside the 16-bit signed range
Fits16(s) == -32768 <= s /\ s <= 32767

\* adjust_volume(data, volume), lines 106-112: what comes back, decoded
\* sample by sample, or the OverflowError of the first sample that does
\* not fit.
adjust_volume(data, volume) ==
    LET scaled == [k \in 1..Len(data) |->
                      TruncDiv100(from_bytes(Int16Bytes(data[k])) * volume)]
    IN  IF \A k \in 1..Len(data) : Fits16(scaled[k])
        THEN Returned([k \in 1..Len(data) |-> from_bytes(Int16Bytes(scaled[k]))])
        ELSE Raised("OverflowError")

VolumeCalls ==
    [op : {"adjust_volume"}, data : Chunks, volume : DspVolumes, ret : {Pending}]

Apply_adjust_volume ==
    /\ dsp.op = "adjust_volume" /\ dsp.ret = Pending
    /\ dsp' = [dsp EXCEPT !.ret = adjust_volume(dsp.data, dsp.volume)]
    /\ UNCHANGED <<files, streams, open, paused, positions, volumes, effects,
                   terminated, eqSetting, fxSetting, thr, ctl, lastCall,
                   seekTarget>>

\* save(files, volumes, filename), lines 304-317.  A track is what
\* sf.read(file) returns for it, here one value per frame; a file of no
\* frames is left out.
SaveSamples == {-1, 0, 2}
SaveTracks == UNION {[1..n -> SaveSamples] : n \in 1..MaxLen}
SaveVolumes == {0, 1, 2}

\* lines 311-313: adjusted_data[i] = audio_data[i] * volumes[i]
Adjusted(track, v) == [k \in 1..Len(track) |-> track[k] * v]

\* line 315: np.sum(adjusted_data, axis=0) for two tracks.  Arrays of one
\* length are added frame by frame.  Arrays of different lengths do not
\* stack: NumPy from 1.24 on raises ValueError when it builds the array;
\* older NumPy builds an array of two objects and adds them, which raises
\* ValueError as well unless one of them has a single frame, and then that
\* frame is broadcast over every frame of the other.  The set of what the
\* installed NumPy can give.
np_sum(a, b) ==
    IF Len(a) = Len(b)
    THEN {Returned([k \in 1..Len(a) |-> a[k] + b[k]])}
    ELSE {Raised("ValueError")}
         \cup (IF Len(a) = 1
                THEN {Returned([k \in 1..Len(b) |-> a[1] + b[k]])} ELSE {})
         \cup (IF Len(b) = 1
                THEN {Returned([k \in 1..Len(a) |-> a[k] + b[1]])} ELSE {})

\* What save hands to sf.write (line 317), or the exception that ends it.
save(tracks, vols) ==
    np_sum(Adjusted(tracks[1], vols[1]), Adjusted(tracks[2], vols[2]))

SaveCalls ==
    [op : {"save"}, tracks : [1..2 -> SaveTracks], volumes : [1..2 -> SaveVolumes],
     ret : {Pending}]

Apply_save ==
    /\ dsp.op = "save" /\ dsp.ret = Pending
    /\ \E r \in save(dsp.tracks, dsp.volumes) : dsp' = [dsp EXCEPT !.ret = r]
    /\ UNCHANGED <<files, streams, open, paused, positions, volumes, effects,
                   terminated, eqSetting, fxSetting, thr, ctl, lastCall,
                   seekTarget>>

\* The mono samples apply_effects hands to its stages (line 129), and the
\* chunks of them.
MonoSamples == {-3, 0, 5}
MonoChunks == UNION {[1..n -> MonoSamples] : n \in 0..MaxLen}
\* Reverb factors in halves: -0.5, 0.0, 0.5, 1.0 and 1.5, all exact as
\* floats.
ReverbFactors == {-1, 0, 1, 2, 3}

RECURSIVE Pow2(_)
Pow2(k) == IF k = 0 THEN 1 ELSE 2 * Pow2(k - 1)

\* lfilter([1], [1, -f], samples), line 192: y[n] = x[n] + f * y[n-1].
\* With f = F / 2, Feedback(x, F, n) is y[n] * 2^(n-1).
RECURSIVE Feedback(_, _, _)
Feedback(x, F, n) ==
    IF n = 1 THEN x[1] ELSE x[n] * Pow2(n - 1) + F * Feedback(x, F, n - 1)

\* apply_reverb(samples, reverb_factor), lines 183-195.  The factor is
\* clamped to [0, 1] (183-186).  decay is all zeros except decay[0] = 1.0
\* and then decay[-1] = factor (189-191); in a chunk of one sample the two
\* are the same entry and the factor is what stays.  The second filter
\* (193) is out[n] = sum of decay[k] * y[n-k].  An empty chunk has no
\* decay[0]: IndexError.  The result is scaled by 2^N to stay in the
\* integers: value.samples[n] = out[n] * value.scale.
apply_reverb(x, factor) ==
    LET F == Max(0, Min(2, factor))
        N == Len(x)
        first(n) == (IF n = 1 /\ N = 1 THEN F ELSE 2)
                    * Feedback(x, F, n) * Pow2(N - n)
        last(n) == IF n = N /\ N > 1 THEN F * x[1] * Pow2(N - 1) ELSE 0
    IN  IF N = 0 THEN Raised("IndexError")
        ELSE Returned([scale |-> Pow2(N),
                       samples |-> [n \in 1..N |-> first(n) + last(n)]])

ReverbCalls ==
    [op : {"apply_reverb"}, samples : MonoChunks, factor : ReverbFactors,
     ret : {Pending}]

Apply_reverb ==
    /\ dsp.op = "apply_reverb" /\ dsp.ret = Pending
    /\ dsp' = [dsp EXCEPT !.ret = apply_reverb(dsp.samples, dsp.factor)]
    /\ UNCHANGED <<files, streams, open, paused, positions, volumes, effects,
                   terminated, eqSetting, fxSetting, thr, ctl, lastCall,
                   seekTarget>>

\* Speed and pitch factors in percent, from below the range to above it.
SpeedFactors == {-100, 0, 25, 50, 75, 100, 150, 200, 300}

\* A clamp that tests the lower end only.
ClampFactor_lowOnly(factor) == IF factor <= 50 THEN 50 ELSE factor

\* lines 150-153 of modify_speed and 168-171 of modify_pitch:
\* if f <= 0.5: f = 0.5 elif f >= 2.0: f = 2.0
ClampFactor(factor) ==
    IF factor <= 50 THEN 50 ELSE IF factor >= 200 THEN 200 ELSE factor

\* np.interp(p, np.arange(N), x) at the point p = pnum / den >= 0, times
\* den: linear between the two neighbouring samples, and the last sample
\* from N - 1 on.
Interp(x, pnum, den) ==
    LET i0 == pnum \div den
        rem == pnum % den
    IN  IF i0 + 1 >= Len(x) THEN x[Len(x)] * den
        ELSE x[i0 + 1] * den + rem * (x[i0 + 2] - x[i0 + 1])

\* modify_speed(samples, speed_factor), lines 150-165:
\* new_num_samples = int(N / factor) (line 156) points, spread evenly over
\* [0, N) (line 160).  np.interp raises ValueError on an empty chunk.
\* value.samples[j] is the sample times value.scale.
modify_speed(x, factor) ==
    LET f == ClampFactor(factor)
        N == Len(x)
        new == (N * 100) \div f
    IN  IF N = 0 THEN Raised("ValueError")
        ELSE Returned([factor |-> f, scale |-> new,
                       samples |-> [j \in 1..new |-> Interp(x, (j - 1) * N, new)]])

\* modify_pitch(samples, pitch_factor), lines 168-180: the points
\* np.arange(0, N, factor) (line 175), of which there are ceil(N / factor).
modify_pitch(x, factor) ==
    LET f == ClampFactor(factor)
        N == Len(x)
        count == (N * 100 + f - 1) \div f
    IN  IF N = 0 THEN Raised("ValueError")
        ELSE Returned([factor |-> f, scale |-> 100,
                       samples |-> [j \in 1..count |-> Interp(x, (j - 1) * f, 100)]])

ResampleCalls ==
    [op : {"modify_speed", "modify_pitch"}, samples : MonoChunks,
     factor : SpeedFactors, ret : {Pending}]

Apply_modify_speed ==
    /\ dsp.op = "modify_speed" /\ dsp.ret = Pending
    /\ dsp' = [dsp EXCEPT !.ret = modify_speed(dsp.samples, dsp.factor)]
    /\ UNCHANGED <<files, streams, open, paused, positions, volumes, effects,
                   terminated, eqSetting, fxSetting, thr, ctl, lastCall,
                   seekTarget>>

Apply_modify_pitch ==
    /\ dsp.op = "modify_pitch" /\ dsp.ret = Pending
    /\ dsp' = [dsp EXCEPT !.ret = modify_pitch(dsp.samples, dsp.factor)]
    /\ UNCHANGED <<files, streams, open, paused, positions, volumes, effects,
                   terminated, eqSetting, fxSetting, thr, ctl, lastCall,
                   seekTarget>>

DspCalls == VolumeCalls \cup SaveCalls \cup ReverbCalls \cup ResampleCalls

\* A player with one track, and one call of a signal-processing function
\* with any arguments.
DspInit ==
    /\ Constructed(<<"short">>, FullVolume(1))
    /\ eqSetting = "false"
    /\ fxSetting = "ok"
    /\ dsp \in DspCalls

DspNext ==
    \/ Apply_adjust_volume
    \/ Apply_save
    \/ Apply_reverb
    \/ Apply_modify_speed
    \/ Apply_modify_pitch

DspSpec == DspInit /\ [][DspNext]_vars

\* ------------------------------------------------------------ claims
Running == {t \in Tids : thr[t].pc \notin {"none", "spawned"}}
ReadStep(t) == thr[t].pc = "read" /\ thr'[t].pc # "read"
WriteStep(t) == thr[t].pc = "write" /\ thr'[t].pc # "write"
SpawnedOne ==
    \E t \in Tids : /\ thr[t].pc = "none"
                    /\ thr'[t].pc = "spawned"
                    /\ \A u \in Tids \ {t} : thr'[u] = thr[u]

\* C1: at most one thread is running play() at any time, whatever the
\* interleaving of pause(), resume() and change_files().
C1_AtMostOneTask == Cardinality(Running) <= 1

\* C2: once stop() has returned, every stream of the player is closed and the
\* streaming loop reads no further chunk, advances no position and writes to
\* no stream.
C2_StoppedIsQuiet ==
    [][terminated =>
          /\ Range(streams) \cap open = {}
          /\ positions' = positions
          /\ \A t \in Tids : ~ReadStep(t) /\ ~WriteStep(t)]_vars

\* C3: once pause() has returned and no later lifecycle call was made, a
\* thread that evaluates the loop condition of play() leaves the loop and
\* exits, also a thread that was started before the pause() and has not
\* yet begun play().
C3_PauseHonoured ==
    [][lastCall = "pause" =>
          \A t \in Tids :
              (thr[t].pc = "while" /\ thr'[t].pc # "while") => thr'[t].pc = "none"]_vars

\* A step that is a call of resume() after some other lifecycle call (or
\* after none: a fresh engine).
ResumeCalled == lastCall' = "resume" /\ lastCall # "resume"

\* C4 as stated: resume() from Paused, and also resume() on a freshly
\* constructed engine, starts a streaming thread.
C4_ResumeAlwaysSpawns ==
    [][ResumeCalled /\ (paused \/ lastCall = "init") => SpawnedOne]_vars

\* C4 as amended: resume() with the paused flag set clears the flag and starts
\* exactly one streaming thread, which reaches its first chunk read unless
\* another lifecycle call is made first; resume() with the flag clear, as it
\* is on a freshly constructed engine, starts nothing and changes nothing.
C4_ResumeSpawnsWhenPaused ==
    /\ [][ResumeCalled =>
            IF paused THEN SpawnedOne /\ paused' = FALSE
                      ELSE thr' = thr /\ paused' = paused]_vars
    /\ \A t \in Tids :
          (thr[t].pc = "spawned" /\ lastCall = "resume")
              ~> (thr[t].pc = "read" \/ lastCall # "resume")

\* A thread that resume() started from Paused is at its chunk read.
C4_Witness ==
    /\ lastCall = "resume"
    /\ \E t \in Tids : thr[t].pc = "read" /\ ~thr[t].first

\* C5: when the thread that change_files() started reads its first chunk (and
\* the control thread has made no other call since), every position is 0,
\* there is exactly one open stream per new track, and no other stream is
\* open.
C5_FullReinit ==
    \A t \in Tids :
        (thr[t].pc = "read" /\ thr[t].first
            /\ lastCall = "change_files" /\ ctl.pc = "idle")
        => /\ positions = Zeros(Len(files))
           /\ Len(streams) = Len(files)
           /\ Cardinality(Range(streams)) = Len(streams)
           /\ open = Range(streams)

\* C6: no step of a streaming thread lowers a position; only set_position and
\* change_files do.
C6_PositionMonotone ==
    [][(\E t \in Tids : ThreadStep(t)) =>
          \A k \in DOMAIN positions :
              k \in DOMAIN positions' /\ positions'[k] >= positions[k]]_vars

\* C7: every position lies between 0 and the total frame count of its track.
C7_PositionInRange ==
    \A k \in DOMAIN positions :
        k \in DOMAIN files => (0 <= positions[k] /\ positions[k] <= FrameCount(files[k]))

\* C8: whenever a thread is running play(), files, volumes, positions and
\* streams have the same length, and the thread never indexes an entry that
\* does not exist.
C8_IndexAligned ==
    /\ Running # {} =>
          /\ Len(volumes) = Len(files)
          /\ Len(positions) = Len(files)
          /\ Len(streams) = Len(files)
    /\ \A t \in Tids :
          /\ thr[t].pc = "read" => thr[t].i <= Len(files) /\ thr[t].i <= Len(positions)
          /\ thr[t].pc = "incr_load" => thr[t].i <= Len(positions)
          /\ thr[t].pc = "process" => thr[t].i <= Len(volumes)

\* C9: when the one streaming thread finds track i exhausted and gives up the
\* cycle, no track after i still has frames left (an exhausted track stops
\* only itself).
C9_TracksIndependent ==
    [][\A t \in Tids :
          (Active = {t} /\ thr[t].pc = "read" /\ thr'[t].pc = "while")
          => ~ \E j \in DOMAIN streams :
                  /\ j > thr[t].i
                  /\ j \in DOMAIN files /\ j \in DOMAIN positions
                  /\ positions[j] < FrameCount(files[j])]_vars

\* C10: the stages applied to a non-empty chunk are volume first, then the
\* effect chain, then the equalizer, in that order; the effect chain is
\* applied only if the effects flag is on and the equalizer only if the EQ
\* setting is on.
StageRank(st) == IF st = "volume" THEN 1 ELSE IF st = "effects" THEN 2 ELSE 3
C10_StageOrder ==
    /\ [](\A t \in Tids :
            thr[t].pc = "write" =>
               /\ Len(thr[t].chain) >= 1
               /\ thr[t].chain[1] = "volume"
               /\ \A a, b \in DOMAIN thr[t].chain :
                     a < b => StageRank(thr[t].chain[a]) < StageRank(thr[t].chain[b]))
    /\ [][\A t \in Tids :
            (thr[t].pc = "process" /\ thr'[t].pc = "write") =>
               /\ "effects" \in Range(thr'[t].chain) => effects
               /\ "eq" \in Range(thr'[t].chain) => eqSetting = "true"]_vars

\* A chunk that went through all three stages is about to be written.
C10_Witness ==
    \E t \in Tids :
        thr[t].pc = "write" /\ thr[t].chain = <<"volume", "effects", "eq">>

\* C11: a failure of the settings store (effect parameters or EQ flag) never
\* ends the streaming thread: get_data still returns the volume-adjusted
\* chunk, without the stage whose setting failed and with the other stage
\* as its setting says, the chunk is written, and the loop goes on to the
\* next track's chunk.
ProcessStep(t) == thr[t].pc = "process" /\ thr'[t].pc # "process"
C11_SettingsFailureSkipsStage ==
    [][\A t \in Tids :
          /\ (ProcessStep(t) /\ ((effects /\ fxSetting = "error") \/ eqSetting = "error"))
             => /\ thr'[t].pc = "write"
                /\ Len(thr'[t].chain) >= 1 /\ thr'[t].chain[1] = "volume"
                /\ fxSetting = "error" => "effects" \notin Range(thr'[t].chain)
                /\ eqSetting = "error" => "eq" \notin Range(thr'[t].chain)
                /\ (fxSetting = "error" /\ eqSetting = "true")
                      => "eq" \in Range(thr'[t].chain)
                /\ (eqSetting = "error" /\ effects /\ fxSetting = "ok")
                      => "effects" \in Range(thr'[t].chain)
          /\ WriteStep(t) => thr'[t].pc = "for" /\ thr'[t].it = thr[t].it]_vars

\* With the effects flag on and both settings failing, a chunk that is only
\* volume-adjusted is about to be written.
C11_Witness ==
    \E t \in Tids :
        /\ thr[t].pc = "write" /\ thr[t].chain = <<"volume">>
        /\ effects /\ fxSetting = "error" /\ eqSetting = "error"

\* C12: for every 16-bit sample s and every volume v the volume stage
\* returns round(s * v) (to the nearest integer, a half to the even one as
\* Python's round does) clamped to [-32768, 32767]; it raises nothing.
RoundDiv100(num) ==
    LET q == num \div 100
        r == num % 100
    IN  IF r < 50 THEN q
        ELSE IF r > 50 THEN q + 1
        ELSE IF q % 2 = 0 THEN q ELSE q + 1
Clamp16(x) == Max(-32768, Min(32767, x))
C12_VolumeRoundsAndClamps ==
    (dsp.op = "adjust_volume" /\ dsp.ret # Pending)
    => /\ dsp.ret.status = "returned"
       /\ \A k \in 1..Len(dsp.data) :
             dsp.ret.value[k] = Clamp16(RoundDiv100(dsp.data[k] * dsp.volume))

\* C15: at volume 1.0 adjust_volume returns the chunk it was given, sample
\* for sample, whatever the length of the chunk.
C15_UnitVolumeIsIdentity ==
    (dsp.op = "adjust_volume" /\ dsp.volume = 100 /\ dsp.ret # Pending)
    => dsp.ret = Returned(dsp.data)

\* adjust_volume at 1.0 has returned for a chunk of the greatest length that
\* starts at the lowest sample and ends at the highest.
C15_Witness ==
    /\ dsp.op = "adjust_volume" /\ dsp.volume = 100
    /\ dsp.ret.status = "returned"
    /\ Len(dsp.data) = MaxLen
    /\ dsp.data[1] = -32768 /\ dsp.data[MaxLen] = 32767

\* C13: when the constructor or change_files fails on a file that cannot be
\* opened, the call has opened no output stream: the stream list, which the
\* call started empty, is still empty when the error reaches the caller.
C13_NoStreamBeforeOpenFailure ==
    lastCall \in {"init_raised", "change_files_raised"} => streams = <<>>

\* C14: save() of two tracks of different lengths returns a mix as long as
\* the longer track; each of its frames is the sum of the volume-scaled
\* frames of the tracks that still have a frame there (the shorter track
\* adds nothing beyond its end), whichever of the two is the shorter.
FrameOrZero(track, v, k) == IF k <= Len(track) THEN v * track[k] ELSE 0
C14_SavePadsShorterTrack ==
    (dsp.op = "save" /\ dsp.ret # Pending
        /\ Len(dsp.tracks[1]) # Len(dsp.tracks[2]))
    => /\ dsp.ret.status = "returned"
       /\ Len(dsp.ret.value) = Max(Len(dsp.tracks[1]), Len(dsp.tracks[2]))
       /\ \A k \in 1..Len(dsp.ret.value) :
             dsp.ret.value[k] = FrameOrZero(dsp.tracks[1], dsp.volumes[1], k)
                                + FrameOrZero(dsp.tracks[2], dsp.volumes[2], k)

\* C16: with a reverb factor of 0.0 or below, apply_reverb returns every
\* non-empty chunk as it was given, sample for sample, a chunk of one sample
\* included.
C16_ZeroReverbIsIdentity ==
    (dsp.op = "apply_reverb" /\ dsp.ret # Pending
        /\ dsp.factor <= 0 /\ Len(dsp.samples) >= 1)
    => /\ dsp.ret.status = "returned"
       /\ Len(dsp.ret.value.samples) = Len(dsp.samples)
       /\ \A k \in 1..Len(dsp.samples) :
             dsp.ret.value.samples[k] = dsp.samples[k] * dsp.ret.value.scale

\* The factor modify_speed or modify_pitch used is the given factor clamped
\* to [0.5, 2.0]: 0.5 for a factor below, 2.0 for a factor above, the factor
\* itself inside.
FactorClamped ==
    /\ 50 <= dsp.ret.value.factor /\ dsp.ret.value.factor <= 200
    /\ dsp.factor < 50 => dsp.ret.value.factor = 50
    /\ dsp.factor > 200 => dsp.ret.value.factor = 200
    /\ (50 <= dsp.factor /\ dsp.factor <= 200) => dsp.ret.value.factor = dsp.factor
\* modify_speed returned floor(N / clamped factor) samples.
SpeedLength ==
    LET n == Len(dsp.ret.value.samples)
        f == dsp.ret.value.factor
    IN  n * f <= Len(dsp.samples) * 100 /\ Len(dsp.samples) * 100 < (n + 1) * f
Resampled == dsp.op \in {"modify_speed", "modify_pitch"} /\ dsp.ret # Pending
                /\ dsp.ret.status = "returned"

\* C17 as stated: the factor used by the speed and the pitch resampling is
\* the given one clamped to [0.5, 2.0], and the speed stage turns N samples
\* into floor(N / clamped factor) samples, a number between N/2 and 2N.
C17_ClampedAndAtLeastHalf ==
    Resampled
    => /\ FactorClamped
       /\ dsp.op = "modify_speed"
             => /\ SpeedLength
                /\ Len(dsp.samples) <= 2 * Len(dsp.ret.value.samples)
                /\ Len(dsp.ret.value.samples) <= 2 * Len(dsp.samples)

\* C17 as amended: the factor used by the speed and the pitch resampling is
\* the given one clamped to [0.5, 2.0], and the speed stage turns N samples
\* into floor(N / clamped factor) samples, a number between floor(N/2) and
\* 2N.
C17_ClampedAndAtLeastHalfFloor ==
    Resampled
    => /\ FactorClamped
       /\ dsp.op = "modify_speed"
             => /\ SpeedLength
                /\ Len(dsp.samples) \div 2 <= Len(dsp.ret.value.samples)
                /\ Len(dsp.ret.value.samples) <= 2 * Len(dsp.samples)

\* modify_speed has returned for a chunk of the greatest length and a factor
\* above the range, and modify_pitch for one below it.
C17_Witness ==
    /\ Resampled
    /\ Len(dsp.samples) = MaxLen
    /\ \/ dsp.op = "modify_speed" /\ dsp.factor = 300
       \/ dsp.op = "modify_pitch" /\ dsp.factor = 25

\* C18: a chunk read at or past the end of track i is empty and has no
\* effect: every position and the paused flag stay as they are, the thread
\* neither goes on to a write nor ends with an exception; and the position
\* update after a short final chunk adds exactly the frames read to the
\* position.
EmptyRead(t) ==
    /\ ReadStep(t)
    /\ thr[t].i <= Len(files) /\ thr[t].i <= Len(positions)
    /\ sf_read(files[thr[t].i], positions[thr[t].i]) = 0
StoreStep(t) == thr[t].pc = "incr_store" /\ thr'[t].pc = "process"
C18_EmptyReadHasNoEffect ==
    [][\A t \in Tids :
          /\ EmptyRead(t)
             => /\ positions' = positions
                /\ paused' = paused
                /\ thr'[t].pc = "while"
          /\ (StoreStep(t) /\ thr[t].n < chunk_size)
             => /\ thr[t].i <= Len(positions')
                /\ positions'[thr[t].i] = positions[thr[t].i] + thr[t].n]_vars

\* C19: a seek is not lost or distorted by a streaming thread: from the
\* return of set_position(i, p) until the next chunk read of track i, the
\* position of track i is p, so that read begins at frame p.
C19_SeekHolds ==
    \A k \in DOMAIN positions :
        seekTarget[k] # NoSeek => positions[k] = seekTarget[k]

\* C20: while change_files() runs and after it, until the next lifecycle
\* call, every stream.write of play() goes to a stream that is open at that
\* moment and that is the stream installed at the index of the track the
\* chunk was read from.
C20_WriteToOpenStreamOfTrack ==
    [][\A t \in Tids :
          (WriteStep(t) /\ lastCall = "change_files")
          => /\ thr[t].stream \in open
             /\ thr[t].i <= Len(streams)
             /\ streams[thr[t].i] = thr[t].stream]_vars

TypeOK ==
    /\ files \in AnyTrackLists
    /\ paused \in BOOLEAN
    /\ effects \in BOOLEAN
    /\ terminated \in BOOLEAN
    /\ open \subseteq 1..(MaxTracks + MaxThreads + 1)
    /\ \A t \in Tids : thr[t].pc \in {"none", "spawned", "while", "for", "read",
                          "incr_load", "incr_store", "process", "write"}

====
